---- MODULE Spec2Model ----
(***************************************************************************)
(* Model of the nova-lang compiler front-end: the logos tokenizer          *)
(* (src/lexer.rs), the recursive-descent parser (src/parser.rs), the type  *)
(* checker (src/typecheck.rs), the inkwell code-generation driver          *)
(* (src/codegen.rs) and the pipeline of main (src/main.rs).                *)
(*                                                                         *)
(* A source text is a sequence of lexemes (whitespace already skipped).    *)
(* The parser cursor `current` is 0-based as in the Rust code: the token   *)
(* under the cursor is tokens[current + 1] of the TLA+ sequence.           *)
(***************************************************************************)
EXTENDS Integers, Sequences, FiniteSets, TLC

VARIABLES
    mode,       \* which entry point drives the run: "main", "check", "gen"
    pc,         \* position of main: the stage about to start, or a final state
    source,     \* the source text, a sequence of lexemes
    tokens,     \* Vec<Token> collected from the lexer
    parsed,     \* outcome of Parser::parse: res, node, err, cur
    ast,        \* the node last handed to the type checker / the driver
    env,        \* TypeChecker.env.symbols
    checked,    \* outcome of TypeChecker::check
    cg,         \* CodeGen: module functions, builder position, variables
    generated,  \* outcome of CodeGen::generate
    started,    \* the stages started so far, in order
    calls       \* number of calls made on the unit under test

vars == <<mode, pc, source, tokens, parsed, ast, env, checked, cg, generated,
          started, calls>>

(***************************************************************************)
(* Bounds.                                                                 *)
(***************************************************************************)
\* longest source enumerated exhaustively over ShortAlphabet
MaxLen == 3
\* most return statements in an enumerated function body
MaxReturns == 2
\* most check calls a test makes on one TypeChecker
MaxChecks == 2
\* most calls a test makes on one CodeGen
MaxGenCalls == 2
\* most statements in an enumerated body handed to the driver
MaxStmts == 2
\* operators in one expression
MaxOps == 2

(***************************************************************************)
(* Lexer: src/lexer.rs.                                                    *)
(***************************************************************************)
\* lexemes matched by a #[token(...)] rule, with the variant they produce
KeywordKind ==
    [ fn |-> "Function", let |-> "Let", return |-> "Return", if |-> "If",
      i32 |-> "TypeInt", f64 |-> "TypeFloat", bool |-> "TypeBool",
      string |-> "TypeString", true |-> "True", false |-> "False" ]

PunctKind(lx) ==
    CASE lx = "(" -> "LeftParen"
      [] lx = ")" -> "RightParen"
      [] lx = "{" -> "LeftBrace"
      [] lx = "}" -> "RightBrace"
      [] lx = ";" -> "Semicolon"
      [] lx = "=" -> "Equals"
      [] lx = "+" -> "Plus"
      [] lx = "-" -> "Minus"
      [] lx = "*" -> "Multiply"
      [] lx = "/" -> "Divide"
      [] lx = ":" -> "Colon"
      [] lx = "," -> "Comma"

Punctuation == {"(", ")", "{", "}", ";", "=", "+", "-", "*", "/", ":", ","}

\* lexemes matching [0-9]+, with the value str::parse::<i64> gives them;
\* -1 stands for None (the literal does not fit an i64)
DecimalValue(lx) ==
    CASE lx = "0" -> 0
      [] lx = "1" -> 1
      [] lx = "2" -> 2
      [] lx = "42" -> 42
      [] lx = "99999999999999999999" -> -1

NumberLexemes == {"0", "1", "2", "42", "99999999999999999999"}

\* lexemes matching "[^"]*"
StringLexemes == {"\"hello\""}

\* lexemes matching [A-Za-z][A-Za-z0-9_]* that are no keyword
IdentLexemes == {"main", "f", "x", "a", "y", "int", "float", "undeclared_var"}

\* lexemes no rule matches
ErrorLexemes == {"@"}

Tok(k) == [kind |-> k]
TokIdentifier(s) == [kind |-> "Identifier", name |-> s]
TokNumber(n) == [kind |-> "Number", val |-> n]

\* the Token logos produces for one lexeme
LexOne(lx) ==
    IF lx \in DOMAIN KeywordKind THEN Tok(KeywordKind[lx])
    ELSE IF lx \in Punctuation THEN Tok(PunctKind(lx))
    ELSE IF lx \in NumberLexemes
         THEN IF DecimalValue(lx) >= 0 THEN TokNumber(DecimalValue(lx))
              ELSE Tok("Error")
    ELSE IF lx \in StringLexemes THEN Tok("StringLiteral")
    ELSE IF lx \in IdentLexemes THEN TokIdentifier(lx)
    ELSE Tok("Error")

\* Token::lexer(source).collect()
Lex(src) == [i \in 1..Len(src) |-> LexOne(src[i])]

\* impl fmt::Display for Token, for the one variant the parser formats
\* (parse_primary calls to_string on a StringLiteral token)
TokenToString(t) ==
    CASE t.kind = "StringLiteral" -> "string literal"

(***************************************************************************)
(* AST: src/parser.rs.                                                     *)
(***************************************************************************)
Program(nodes) == [type |-> "Program", nodes |-> nodes]
Number(n) == [type |-> "Number", val |-> n]
Identifier(s) == [type |-> "Identifier", name |-> s]
StringLiteral(s) == [type |-> "StringLiteral", text |-> s]
Boolean(b) == [type |-> "Boolean", bool |-> b]
Return(e) == [type |-> "Return", expr |-> e]
BinaryOp(op, l, r) == [type |-> "BinaryOp", op |-> op, left |-> l, right |-> r]
None == [some |-> FALSE]
Some(s) == [some |-> TRUE, v |-> s]
Let(name, ann, value) ==
    [type |-> "Let", name |-> name, type_annotation |-> ann, value |-> value]
Function(name, params, body) ==
    [type |-> "Function", name |-> name, params |-> params, body |-> body]

NoNode == [type |-> "none"]

(***************************************************************************)
(* Parser: src/parser.rs.  Every operator returns an outcome               *)
(*   res = "Ok"    the Result is Ok(node) and the cursor is cur            *)
(*   res = "Err"   the Result is Err(err)                                  *)
(*   res = "Panic" tokens[current] was read with current >= tokens.len()   *)
(***************************************************************************)
POk(node, cur) == [res |-> "Ok", node |-> node, err |-> "", cur |-> cur]
PErr(msg, cur) == [res |-> "Err", node |-> NoNode, err |-> msg, cur |-> cur]
PPanic(cur) ==
    [res |-> "Panic", node |-> NoNode, err |-> "index out of bounds", cur |-> cur]

\* the index check of tokens[current]
InBounds(toks, cur) == cur < Len(toks)

\* Parser::current_token, for a cursor in bounds
current_token(toks, cur) == toks[cur + 1]

\* Parser::advance
advance(cur) == cur + 1

\* Parser::parse_type
parse_type(toks, cur) ==
    IF ~InBounds(toks, cur) THEN PPanic(cur)
    ELSE IF current_token(toks, cur).kind = "TypeInt"
         THEN POk([tag |-> "Int"], advance(cur))
    ELSE IF current_token(toks, cur).kind = "TypeFloat"
         THEN POk([tag |-> "Float"], advance(cur))
    ELSE PErr("Expected type", cur)

\* Parser::parse_primary
parse_primary(toks, cur) ==
    IF ~InBounds(toks, cur) THEN PPanic(cur)
    ELSE LET t == current_token(toks, cur) IN
         CASE t.kind = "Number" -> POk(Number(t.val), advance(cur))
           [] t.kind = "StringLiteral" ->
                POk(StringLiteral(TokenToString(t)), advance(cur))
           [] t.kind = "True" -> POk(Boolean(TRUE), advance(cur))
           [] t.kind = "False" -> POk(Boolean(FALSE), advance(cur))
           [] t.kind = "Identifier" -> POk(Identifier(t.name), advance(cur))
           [] OTHER -> PErr("Expected expression", cur)

\* the operator a token of the binary-expression loop stands for
BinaryOperator(t) ==
    CASE t.kind = "Plus" -> "Add"
      [] t.kind = "Minus" -> "Subtract"
      [] t.kind = "Multiply" -> "Multiply"
      [] t.kind = "Divide" -> "Divide"

IsOperatorToken(t) == t.kind \in {"Plus", "Minus", "Multiply", "Divide"}

\* the loop nesting to the right: p0 op1 (p1 op2 (...))
RECURSIVE BinaryLoop_right_nested(_, _, _)
BinaryLoop_right_nested(toks, cur, left) ==
    IF ~InBounds(toks, cur) THEN PPanic(cur)
    ELSE IF ~IsOperatorToken(current_token(toks, cur)) THEN POk(left, cur)
    ELSE LET op == BinaryOperator(current_token(toks, cur))
             right == parse_primary(toks, advance(cur))
         IN  IF right.res # "Ok" THEN right
             ELSE LET rest == BinaryLoop_right_nested(toks, right.cur, right.node)
                  IN  IF rest.res # "Ok" THEN rest
                      ELSE POk(BinaryOp(op, left, rest.node), rest.cur)

\* the while-let loop of Parser::parse_binary_expression
RECURSIVE BinaryLoop(_, _, _)
BinaryLoop(toks, cur, left) ==
    IF ~InBounds(toks, cur) THEN PPanic(cur)
    ELSE IF ~IsOperatorToken(current_token(toks, cur)) THEN POk(left, cur)
    ELSE LET op == BinaryOperator(current_token(toks, cur))
             right == parse_primary(toks, advance(cur))
         IN  IF right.res # "Ok" THEN right
             ELSE BinaryLoop(toks, right.cur, BinaryOp(op, left, right.node))

\* Parser::parse_binary_expression
parse_binary_expression(toks, cur) ==
    LET left == parse_primary(toks, cur)
    IN  IF left.res # "Ok" THEN left
        ELSE BinaryLoop(toks, left.cur, left.node)

\* Parser::parse_expression
parse_expression(toks, cur) == parse_binary_expression(toks, cur)

\* return_statement pushing the expression itself instead of Return(expr)
return_statement_unwrapped(toks, cur) ==
    LET expr == parse_expression(toks, advance(cur))
    IN  IF expr.res # "Ok" THEN expr
        ELSE IF ~InBounds(toks, expr.cur) THEN PPanic(expr.cur)
        ELSE IF current_token(toks, expr.cur).kind # "Semicolon"
             THEN PErr("Expected ';' after return statement", expr.cur)
        ELSE POk(expr.node, advance(expr.cur))

\* return_statement with the `;` optional
return_statement_no_semicolon(toks, cur) ==
    LET expr == parse_expression(toks, advance(cur))
    IN  IF expr.res # "Ok" THEN expr
        ELSE IF ~InBounds(toks, expr.cur) THEN PPanic(expr.cur)
        ELSE IF current_token(toks, expr.cur).kind # "Semicolon"
             THEN POk(Return(expr.node), expr.cur)
        ELSE POk(Return(expr.node), advance(expr.cur))

\* the `return` arm of the loop of Parser::parse_block; cur is at `return`
return_statement(toks, cur) ==
    LET expr == parse_expression(toks, advance(cur))
    IN  IF expr.res # "Ok" THEN expr
        ELSE IF ~InBounds(toks, expr.cur) THEN PPanic(expr.cur)
        ELSE IF current_token(toks, expr.cur).kind # "Semicolon"
             THEN PErr("Expected ';' after return statement", expr.cur)
        ELSE POk(Return(expr.node), advance(expr.cur))

\* the while loop of Parser::parse_block
RECURSIVE BlockLoop(_, _, _)
BlockLoop(toks, cur, statements) ==
    IF ~InBounds(toks, cur) THEN PPanic(cur)
    ELSE IF current_token(toks, cur).kind = "RightBrace"
         THEN POk(Program(statements), advance(cur))
    ELSE IF current_token(toks, cur).kind = "Return"
         THEN LET st == return_statement(toks, cur)
              IN  IF st.res # "Ok" THEN st
                  ELSE BlockLoop(toks, st.cur, Append(statements, st.node))
    ELSE PErr("Unexpected token in function body", cur)

\* Parser::parse_block
parse_block(toks, cur) == BlockLoop(toks, cur, <<>>)

\* the type annotation of Parser::parse_let_statement; cur is after the name.
\* The node of the outcome is the Option<String>.
let_type_annotation(toks, cur) ==
    IF ~InBounds(toks, cur) THEN PPanic(cur)
    ELSE IF current_token(toks, cur).kind # "Colon" THEN POk(None, cur)
    ELSE IF ~InBounds(toks, advance(cur)) THEN PPanic(advance(cur))
    ELSE IF current_token(toks, advance(cur)).kind = "Identifier"
         THEN POk(Some(current_token(toks, advance(cur)).name),
                  advance(advance(cur)))
    ELSE PErr("Expected type name after ':'", advance(cur))

\* Parser::parse_let_statement; cur is at `let`
parse_let_statement(toks, cur) ==
    LET c1 == advance(cur) IN
    IF ~InBounds(toks, c1) THEN PPanic(c1)
    ELSE IF current_token(toks, c1).kind # "Identifier"
         THEN PErr("Expected variable name", c1)
    ELSE
    LET name == current_token(toks, c1).name
        ann == let_type_annotation(toks, advance(c1))
    IN
    IF ann.res # "Ok" THEN ann
    ELSE IF ~InBounds(toks, ann.cur) THEN PPanic(ann.cur)
    ELSE IF current_token(toks, ann.cur).kind # "Equals"
         THEN PErr("Expected '=' after type annotation", ann.cur)
    ELSE
    LET value == parse_expression(toks, advance(ann.cur)) IN
    IF value.res # "Ok" THEN value
    ELSE IF ~InBounds(toks, value.cur) THEN PPanic(value.cur)
    ELSE IF current_token(toks, value.cur).kind # "Semicolon"
         THEN PErr("Expected ';' after let statement", value.cur)
    ELSE POk(Let(name, ann.node, value.node), advance(value.cur))

\* the parameter loop of Parser::parse_function; cur is after `(` or after a
\* parameter.  The node of the outcome is the Vec<(String, String)>, and the
\* cursor of an Ok outcome is after `)`.
RECURSIVE ParamLoop(_, _, _)
ParamLoop(toks, cur, params) ==
    IF ~InBounds(toks, cur) THEN PPanic(cur)
    ELSE IF current_token(toks, cur).kind = "RightParen"
         THEN POk(params, advance(cur))
    ELSE IF current_token(toks, cur).kind # "Identifier"
         THEN PErr("Expected parameter name", cur)
    ELSE
    LET param_name == current_token(toks, cur).name
        c1 == advance(cur)
    IN
    IF ~InBounds(toks, c1) THEN PPanic(c1)
    ELSE IF current_token(toks, c1).kind # "Colon"
         THEN PErr("Expected ':' after parameter name", c1)
    ELSE
    LET c2 == advance(c1) IN
    IF ~InBounds(toks, c2) THEN PPanic(c2)
    ELSE IF current_token(toks, c2).kind # "Identifier"
         THEN PErr("Expected type name after ':'", c2)
    ELSE
    LET param_type == current_token(toks, c2).name
        c3 == advance(c2)
        pushed == Append(params, <<param_name, param_type>>)
    IN
    IF ~InBounds(toks, c3) THEN PPanic(c3)
    ELSE IF current_token(toks, c3).kind = "Comma"
         THEN ParamLoop(toks, advance(c3), pushed)
    ELSE ParamLoop(toks, c3, pushed)

\* the part of Parser::parse_function after the parameter list: the return
\* type and the body; cur is after `)`
function_signature_and_body(toks, cur, name, params) ==
    IF ~InBounds(toks, cur) THEN PPanic(cur)
    ELSE IF current_token(toks, cur).kind # "Colon"
         THEN PErr("Expected ':' after parameters", cur)
    ELSE
    LET return_type == parse_type(toks, advance(cur)) IN
    IF return_type.res # "Ok" THEN return_type
    ELSE IF ~InBounds(toks, return_type.cur) THEN PPanic(return_type.cur)
    ELSE IF current_token(toks, return_type.cur).kind # "LeftBrace"
         THEN PErr("Expected '{' to begin function body", return_type.cur)
    ELSE
    LET body == parse_block(toks, advance(return_type.cur)) IN
    IF body.res # "Ok" THEN body
    ELSE POk(Function(name, params, body.node), body.cur)

\* Parser::parse_function; cur is at `fn`
parse_function(toks, cur) ==
    LET c1 == advance(cur) IN
    IF ~InBounds(toks, c1) THEN PPanic(c1)
    ELSE IF current_token(toks, c1).kind # "Identifier"
         THEN PErr("Expected function name", c1)
    ELSE
    LET name == current_token(toks, c1).name
        c2 == advance(c1)
    IN
    IF ~InBounds(toks, c2) THEN PPanic(c2)
    ELSE IF current_token(toks, c2).kind # "LeftParen"
         THEN PErr("Expected '(' after function name", c2)
    ELSE
    LET params == ParamLoop(toks, advance(c2), <<>>) IN
    IF params.res # "Ok" THEN params
    ELSE function_signature_and_body(toks, params.cur, name, params.node)

\* Parser::parse_declaration
parse_declaration(toks, cur) ==
    IF ~InBounds(toks, cur) THEN PPanic(cur)
    ELSE IF current_token(toks, cur).kind = "Function"
         THEN parse_function(toks, cur)
    ELSE IF current_token(toks, cur).kind = "Let"
         THEN parse_let_statement(toks, cur)
    ELSE PErr("Expected declaration", cur)

\* the while loop of Parser::parse
RECURSIVE ParseLoop(_, _, _)
ParseLoop(toks, cur, program) ==
    IF ~(cur < Len(toks)) THEN POk(Program(program), cur)
    ELSE LET decl == parse_declaration(toks, cur)
         IN  IF decl.res # "Ok" THEN decl
             ELSE ParseLoop(toks, decl.cur, Append(program, decl.node))

\* Parser::new(tokens).parse()
parse(toks) == ParseLoop(toks, 0, <<>>)

(***************************************************************************)
(* Types and type checker: src/types.rs, src/typecheck.rs.                 *)
(***************************************************************************)
TInt == [tag |-> "Int"]
TFloat == [tag |-> "Float"]
TBool == [tag |-> "Bool"]
TString == [tag |-> "String"]
TVoid == [tag |-> "Void"]
\* Type::function
TFunction(params, return_type) ==
    [tag |-> "Function", params |-> params, return_type |-> return_type]

\* TypeEnvironment::new
EmptyEnv == [n \in {} |-> TVoid]

\* TypeEnvironment::insert
EnvInsert(e, name, ty) ==
    [n \in DOMAIN e \cup {name} |-> IF n = name THEN ty ELSE e[n]]

NoType == [tag |-> "none"]
NoError == [kind |-> "none"]
UnknownType(name) == [kind |-> "UnknownType", name |-> name]
Mismatch(expected, actual) ==
    [kind |-> "Mismatch", expected |-> expected, actual |-> actual]
UnsupportedNode == [kind |-> "Unsupported"]

COk(ty, e) == [res |-> "Ok", ty |-> ty, err |-> NoError, env |-> e]
CErr(err, e) == [res |-> "Err", ty |-> NoType, err |-> err, env |-> e]

\* the names the match of the Let arm resolves
KnownTypeNames == {"int", "float", "string", "bool"}

\* the match on type_name.as_str() of the Let arm
expected_type(type_name) ==
    CASE type_name = "int" -> TInt
      [] type_name = "float" -> TFloat
      [] type_name = "string" -> TString
      [] type_name = "bool" -> TBool

\* annotation_error with the two types of the mismatch message exchanged
annotation_error_swapped(type_annotation, value_type) ==
    IF ~type_annotation.some THEN NoError
    ELSE IF type_annotation.v \notin KnownTypeNames
         THEN UnknownType(type_annotation.v)
    ELSE IF value_type # expected_type(type_annotation.v)
         THEN Mismatch(value_type, expected_type(type_annotation.v))
    ELSE NoError

\* the annotation check of the Let arm: NoError when the Let passes it
annotation_error(type_annotation, value_type) ==
    IF ~type_annotation.some THEN NoError
    ELSE IF type_annotation.v \notin KnownTypeNames
         THEN UnknownType(type_annotation.v)
    ELSE IF value_type # expected_type(type_annotation.v)
         THEN Mismatch(expected_type(type_annotation.v), value_type)
    ELSE NoError

\* TypeChecker::check, with the environment it leaves behind
RECURSIVE check(_, _)
RECURSIVE CheckNodes(_, _, _, _)
\* CheckNodes keeping the type of the first child instead of the last
RECURSIVE CheckNodes_keeps_first(_, _, _, _)
CheckNodes_keeps_first(nodes, i, last_type, e) ==
    IF i > Len(nodes) THEN COk(last_type, e)
    ELSE LET r == check(nodes[i], e)
         IN  IF r.res # "Ok" THEN r
             ELSE CheckNodes_keeps_first(nodes, i + 1,
                      IF i = 1 THEN r.ty ELSE last_type, r.env)

\* the for loop of the Program arm, from child i on
CheckNodes(nodes, i, last_type, e) ==
    IF i > Len(nodes) THEN COk(last_type, e)
    ELSE LET r == check(nodes[i], e)
         IN  IF r.res # "Ok" THEN r
             ELSE CheckNodes(nodes, i + 1, r.ty, r.env)

check(node, e) ==
    CASE node.type = "Program" -> CheckNodes(node.nodes, 1, TVoid, e)
      [] node.type = "Function" ->
            LET body == check(node.body, e)
            IN  IF body.res # "Ok" THEN body
                ELSE COk(body.ty,
                         EnvInsert(body.env, node.name, TFunction(<<>>, body.ty)))
      [] node.type = "Number" -> COk(TInt, e)
      [] node.type = "StringLiteral" -> COk(TString, e)
      [] node.type = "Boolean" -> COk(TBool, e)
      [] node.type = "Let" ->
            LET value == check(node.value, e)
            IN  IF value.res # "Ok" THEN value
                ELSE IF annotation_error(node.type_annotation, value.ty) # NoError
                     THEN CErr(annotation_error(node.type_annotation, value.ty),
                               value.env)
                ELSE COk(value.ty, EnvInsert(value.env, node.name, value.ty))
      [] node.type = "Return" -> check(node.expr, e)
      [] OTHER -> CErr(UnsupportedNode, e)

(***************************************************************************)
(* Code-generation driver: src/codegen.rs.  The backend state is the list  *)
(* of functions of the module, each with the instructions of its entry     *)
(* block, and the block the builder is positioned at (0: not positioned).  *)
(***************************************************************************)
\* CodeGen::new
NewCodeGen ==
    [functions |-> <<>>, pos |-> 0, variables |-> [n \in {} |-> 0]]

ConstInt(ty, n) == [ty |-> ty, const |-> TRUE, n |-> n]
Loaded(ty, name) == [ty |-> ty, const |-> FALSE, name |-> name]
NoValue == [ty |-> "none"]

Alloca(ty, name) == [op |-> "alloca", ty |-> ty, name |-> name]
Store(val) == [op |-> "store", ty |-> val.ty]
Load(ty, name) == [op |-> "load", ty |-> ty, name |-> name]
\* site: the build_return call that emitted it, "explicit" (Return arm) or
\* "default" (Function arm)
Ret(val, site) == [op |-> "ret", ty |-> val.ty, val |-> val, site |-> site]

UndefinedVariable(name) == [kind |-> "UndefinedVariable", name |-> name]
BackendError(what) == [kind |-> what]
UnsupportedValue == [kind |-> "UnsupportedValue"]
InvalidFunction == [kind |-> "InvalidFunction"]

GOk(g) == [res |-> "Ok", err |-> NoError, val |-> NoValue, cg |-> g]
GVal(val, g) == [res |-> "Ok", err |-> NoError, val |-> val, cg |-> g]
GErr(err, g) == [res |-> "Err", err |-> err, val |-> NoValue, cg |-> g]

\* a builder call needs a positioned builder (BuilderError::UnsetPosition)
Positioned(g) == g.pos # 0

\* the builder appends one instruction at the end of its insert block
Emit(g, instr) ==
    [g EXCEPT !.functions[g.pos].block = Append(@, instr)]

\* BasicBlock::get_terminator of the builder's insert block
HasTerminator(g) ==
    LET block == g.functions[g.pos].block
    IN  Len(block) > 0 /\ block[Len(block)].op = "ret"

\* FunctionValue::verify: the entry block ends in its only terminator and
\* every return has the function's return type
verify(f) ==
    /\ Len(f.block) > 0
    /\ f.block[Len(f.block)].op = "ret"
    /\ \A i \in 1..Len(f.block) :
          f.block[i].op = "ret" => (i = Len(f.block) /\ f.block[i].ty = f.ret_ty)

\* load_variable yielding a zero constant for a name it does not know
load_variable_defaulting(name, g) ==
    IF name \in DOMAIN g.variables
    THEN IF Positioned(g)
         THEN GVal(Loaded("i64", name), Emit(g, Load("i64", name)))
         ELSE GErr(BackendError("Failed to load variable"), g)
    ELSE GVal(ConstInt("i64", 0), g)

\* CodeGen::load_variable
load_variable(name, g) ==
    IF name \in DOMAIN g.variables
    THEN IF Positioned(g)
         THEN GVal(Loaded("i64", name), Emit(g, Load("i64", name)))
         ELSE GErr(BackendError("Failed to load variable"), g)
    ELSE GErr(UndefinedVariable(name), g)

\* generate_value yielding a zero constant for an expression it has no rule for
generate_value_lenient(expr, g) ==
    CASE expr.type = "Number" -> GVal(ConstInt("i32", expr.val), g)
      [] expr.type = "Identifier" -> load_variable(expr.name, g)
      [] OTHER -> GVal(ConstInt("i32", 0), g)

\* CodeGen::generate_value
generate_value(expr, g) ==
    CASE expr.type = "Number" -> GVal(ConstInt("i32", expr.val), g)
      [] expr.type = "Identifier" -> load_variable(expr.name, g)
      [] OTHER -> GErr(UnsupportedValue, g)

\* the Let arm of CodeGen::generate_expression
generate_let(node, g) ==
    LET val == generate_value(node.value, g) IN
    IF val.res # "Ok" THEN GErr(val.err, val.cg)
    ELSE IF ~Positioned(val.cg)
         THEN GErr(BackendError("Failed to allocate"), val.cg)
    ELSE LET g1 == Emit(val.cg, Alloca(val.val.ty, node.name))
             slot == [fn |-> g1.pos, at |-> Len(g1.functions[g1.pos].block)]
             g2 == Emit(g1, Store(val.val))
         IN  GOk([g2 EXCEPT !.variables =
                     [n \in DOMAIN @ \cup {node.name} |->
                         IF n = node.name THEN slot ELSE @[n]]])

\* the Return arm of CodeGen::generate_expression
generate_return(node, g) ==
    LET return_value == generate_value(node.expr, g) IN
    IF return_value.res # "Ok" THEN GErr(return_value.err, return_value.cg)
    ELSE IF ~Positioned(return_value.cg)
         THEN GErr(BackendError("Failed to build return"), return_value.cg)
    ELSE GOk(Emit(return_value.cg, Ret(return_value.val, "explicit")))

\* the Function arm up to the body: add_function, append_basic_block,
\* position_at_end
open_function(name, g) ==
    [g EXCEPT !.functions =
                  Append(@, [name |-> name, ret_ty |-> "i32", block |-> <<>>]),
              !.pos = Len(g.functions) + 1]

\* the Function arm after the body: the default return
default_return(g) ==
    IF ~HasTerminator(g) THEN Emit(g, Ret(ConstInt("i32", 0), "default"))
    ELSE g

\* verify_function with the result of the verification ignored
verify_function_skipped(idx, g) == GOk(g)

\* the Function arm after the default return: verification of function idx
verify_function(idx, g) ==
    IF verify(g.functions[idx]) THEN GOk(g) ELSE GErr(InvalidFunction, g)

\* CodeGen::generate_expression
RECURSIVE generate_expression(_, _)
RECURSIVE GenNodes(_, _, _)
\* a for loop over nodes, from node i on
GenNodes(nodes, i, g) ==
    IF i > Len(nodes) THEN GOk(g)
    ELSE LET r == generate_expression(nodes[i], g)
         IN  IF r.res # "Ok" THEN r ELSE GenNodes(nodes, i + 1, r.cg)

generate_expression(expr, g) ==
    CASE expr.type = "Program" -> GenNodes(expr.nodes, 1, g)
      [] expr.type = "Number" -> GOk(g)
      [] expr.type = "Let" -> generate_let(expr, g)
      [] expr.type = "Function" ->
            LET idx == Len(g.functions) + 1
                opened == open_function(expr.name, g)
                body == IF expr.body.type = "Program"
                        THEN GenNodes(expr.body.nodes, 1, opened)
                        ELSE generate_expression(expr.body, opened)
            IN  IF body.res # "Ok" THEN body
                ELSE verify_function(idx, default_return(body.cg))
      [] expr.type = "Return" -> generate_return(expr, g)
      [] OTHER -> GOk(g)

\* CodeGen::generate
generate(node, g) ==
    IF node.type = "Program" THEN GenNodes(node.nodes, 1, g)
    ELSE generate_expression(node, g)

\* the loop of CodeGen::create_function over args, from argument i on:
\* alloca, store, variables.insert
RECURSIVE ArgsLoop(_, _, _)
ArgsLoop(args, i, g) ==
    IF i > Len(args) THEN g
    ELSE LET g1 == Emit(g, Alloca(args[i][2], args[i][1]))
             slot == [fn |-> g1.pos, at |-> Len(g1.functions[g1.pos].block)]
             g2 == Emit(g1, Store([ty |-> args[i][2]]))
         IN  ArgsLoop(args, i + 1,
                 [g2 EXCEPT !.variables =
                     [n \in DOMAIN @ \cup {args[i][1]} |->
                         IF n = args[i][1] THEN slot ELSE @[n]]])

\* CodeGen::create_function, for an integer ret_type
create_function(name, args, ret_type, g) ==
    ArgsLoop(args, 1,
        [g EXCEPT !.functions =
                      Append(@, [name |-> name, ret_ty |-> ret_type,
                                 block |-> <<>>]),
                  !.pos = Len(g.functions) + 1])

(***************************************************************************)
(* Inputs.                                                                 *)
(***************************************************************************)
SeqsUpTo(S, n) == UNION {[1..k -> S] : k \in 0..n}

RECURSIVE Concat(_)
Concat(ss) == IF ss = <<>> THEN <<>> ELSE Head(ss) \o Concat(Tail(ss))

Prefixes(s) == {SubSeq(s, 1, k) : k \in 0..Len(s)}
Deletions(s) == {SubSeq(s, 1, i - 1) \o SubSeq(s, i + 1, Len(s)) : i \in 1..Len(s)}

\* source texts of expressions
ExprSources ==
    {<<"42">>, <<"1">>, <<"a">>, <<"true">>, <<"1", "+", "2", "*", "x">>}
ReturnSource(e) == <<"return">> \o e \o <<";">>
\* function bodies the grammar allows: return statements only
BodySources ==
    {Concat(b) : b \in SeqsUpTo({ReturnSource(e) : e \in ExprSources}, MaxReturns)}
ParamSources ==
    {<<>>, <<"a", ":", "int">>, <<"a", ":", "i32">>,
     <<"a", ":", "int", ",", "x", ":", "int">>,
     <<"a", ":", "int", "x", ":", "int">>, <<"a", ":", "int", ",">>}
ReturnTypeSources == {<<":", "i32">>, <<":", "f64">>, <<":", "string">>, <<>>}
FunctionSource(name, params, return_type, body) ==
    <<"fn", name, "(">> \o params \o <<")">> \o return_type
        \o <<"{">> \o body \o <<"}">>
AnnotationSources ==
    {<<>>, <<":", "i32">>, <<":", "int">>, <<":", "string">>}
LetSource(name, annotation, e) ==
    <<"let", name>> \o annotation \o <<"=">> \o e \o <<";">>

\* fn name(): i32 { return n; } for every identifier and every i64 literal
ReturnLiteralSources ==
    {FunctionSource(name, <<>>, <<":", "i32">>, ReturnSource(<<n>>)) :
        name \in IdentLexemes, n \in {lx \in NumberLexemes : DecimalValue(lx) >= 0}}

FunctionSources ==
    {FunctionSource(name, <<>>, <<":", "i32">>, b) :
        name \in {"main", "f"}, b \in BodySources}
    \cup {FunctionSource("main", p, r, b) :
            p \in ParamSources, r \in ReturnTypeSources,
            b \in {ReturnSource(<<"42">>), <<"return", "1">>}}
    \cup {FunctionSource("main", <<>>, <<":", "i32">>,
                LetSource("a", <<":", "i32">>, <<"1">>) \o ReturnSource(<<"a">>)),
          FunctionSource("main", <<>>, <<>>,
                LetSource("x", <<":", "i32">>, <<"42">>) \o ReturnSource(<<"x">>))}
    \cup ReturnLiteralSources

LetSources ==
    {LetSource(name, ann, e) :
        name \in {"x", "a"}, ann \in AnnotationSources,
        e \in ExprSources \cup {<<"\"hello\"">>, <<"99999999999999999999">>, <<"@">>}}

\* a function, a let after it, and a function after both
SequenceSources ==
    LET fs == {FunctionSource("f", <<>>, <<":", "i32">>, b) :
                  b \in {<<>>, ReturnSource(<<"1">>), ReturnSource(<<"a">>)}}
        ls == {LetSource("a", ann, <<"1">>) : ann \in {<<>>, <<":", "int">>}}
    IN  {f \o l : f \in fs, l \in ls} \cup {l \o f : f \in fs, l \in ls}
        \cup {f \o l \o g : f \in fs, l \in ls, g \in fs}

\* the primary at position i of an operator expression
OperatorPrimaries == <<"1", "2", "a", "42">>
PrimaryAt(i) == OperatorPrimaries[(i % Len(OperatorPrimaries)) + 1]

\* p0 op1 p1 ... opk pk for every choice of the k operators
RECURSIVE OperatorExprs(_)
OperatorExprs(k) ==
    IF k = 0 THEN {<<PrimaryAt(0)>>}
    ELSE {e \o <<op, PrimaryAt(k)>> :
             e \in OperatorExprs(k - 1), op \in {"+", "-", "*", "/"}}

\* let x = p0 op1 p1 ... opk pk; for up to MaxOps operators
OperatorSources ==
    {LetSource("x", <<>>, e) : e \in UNION {OperatorExprs(k) : k \in 0..MaxOps}}

WellFormedSources ==
    FunctionSources \cup LetSources \cup SequenceSources \cup OperatorSources

\* well-formed texts cut short or with one lexeme missing
DamagedSources ==
    UNION {Prefixes(s) \cup Deletions(s) : s \in FunctionSources \cup LetSources}

ShortAlphabet ==
    {"fn", "let", "return", "x", "(", ")", "{", "}", ":", "i32", "=", "42", ";"}

Sources ==
    WellFormedSources \cup DamagedSources \cup SeqsUpTo(ShortAlphabet, MaxLen)

(***************************************************************************)
(* The pipeline of main: src/main.rs.                                      *)
(***************************************************************************)
NotRun == [res |-> "NotRun"]

Init ==
    /\ mode = "main"
    /\ pc = "tokenize"
    /\ source \in Sources
    /\ tokens = <<>>
    /\ parsed = NotRun
    /\ ast = NoNode
    /\ env = EmptyEnv
    /\ checked = NotRun
    /\ cg = NewCodeGen
    /\ generated = NotRun
    /\ started = <<>>
    /\ calls = 0

\* let tokens: Vec<Token> = Token::lexer(source).collect();
Tokenize ==
    /\ mode = "main" /\ pc = "tokenize"
    /\ tokens' = Lex(source)
    /\ pc' = "parse"
    /\ started' = Append(started, "tokenize")
    /\ UNCHANGED <<mode, source, parsed, ast, env, checked, cg, generated, calls>>

\* let ast = Parser::new(tokens).parse()?;
Parse ==
    /\ mode = "main" /\ pc = "parse"
    /\ parsed' = parse(tokens)
    /\ ast' = parsed'.node
    /\ pc' = CASE parsed'.res = "Ok" -> "typecheck"
               [] parsed'.res = "Err" -> "failed"
               [] parsed'.res = "Panic" -> "panicked"
    /\ started' = Append(started, "parse")
    /\ UNCHANGED <<mode, source, tokens, env, checked, cg, generated, calls>>

\* TypeCheck with the `?` dropped: the result of check is ignored
TypeCheck_unchecked ==
    /\ mode = "main" /\ pc = "typecheck"
    /\ LET r == check(ast, EmptyEnv)
       IN  /\ checked' = [res |-> r.res, ty |-> r.ty, err |-> r.err]
           /\ env' = r.env
           /\ pc' = "generate"
    /\ started' = Append(started, "typecheck")
    /\ UNCHANGED <<mode, source, tokens, parsed, ast, cg, generated, calls>>

\* type_checker.check(&ast)?;
TypeCheck ==
    /\ mode = "main" /\ pc = "typecheck"
    /\ LET r == check(ast, EmptyEnv)
       IN  /\ checked' = [res |-> r.res, ty |-> r.ty, err |-> r.err]
           /\ env' = r.env
           /\ pc' = IF r.res = "Ok" THEN "generate" ELSE "failed"
    /\ started' = Append(started, "typecheck")
    /\ UNCHANGED <<mode, source, tokens, parsed, ast, cg, generated, calls>>

\* codegen.generate(&ast)?;
Generate ==
    /\ mode = "main" /\ pc = "generate"
    /\ LET r == generate(ast, NewCodeGen)
       IN  /\ generated' = [res |-> r.res, err |-> r.err]
           /\ cg' = r.cg
           /\ pc' = IF r.res = "Ok" THEN "write_object" ELSE "failed"
    /\ started' = Append(started, "generate")
    /\ UNCHANGED <<mode, source, tokens, parsed, ast, env, checked, calls>>

\* codegen.write_object_file("output.o")?;  the backend may fail
WriteObject ==
    /\ mode = "main" /\ pc = "write_object"
    /\ \E ok \in BOOLEAN : pc' = IF ok THEN "link" ELSE "failed"
    /\ started' = Append(started, "write_object")
    /\ UNCHANGED <<mode, source, tokens, parsed, ast, env, checked, cg,
                   generated, calls>>

\* Command::new("cc") ... .status(), and the check of the exit status
Link ==
    /\ mode = "main" /\ pc = "link"
    /\ \E ok \in BOOLEAN : pc' = IF ok THEN "cleanup" ELSE "failed"
    /\ started' = Append(started, "link")
    /\ UNCHANGED <<mode, source, tokens, parsed, ast, env, checked, cg,
                   generated, calls>>

\* std::fs::remove_file("output.o")
Cleanup ==
    /\ mode = "main" /\ pc = "cleanup"
    /\ \E ok \in BOOLEAN : pc' = IF ok THEN "done" ELSE "failed"
    /\ started' = Append(started, "cleanup")
    /\ UNCHANGED <<mode, source, tokens, parsed, ast, env, checked, cg,
                   generated, calls>>

Next ==
    \/ Tokenize
    \/ Parse
    \/ TypeCheck
    \/ Generate
    \/ WriteObject
    \/ Link
    \/ Cleanup

Spec == Init /\ [][Next]_vars

(***************************************************************************)
(* A test driving one TypeChecker, as test_type_checker of                 *)
(* src/typecheck.rs does: a fresh checker, then check calls on nodes.      *)
(***************************************************************************)
CheckInputs ==
    {Let(name, ann, value) :
        name \in {"x", "y"},
        ann \in {None, Some("i32"), Some("int"), Some("string"), Some("bool"),
                 Some("float")},
        value \in {Number(42), StringLiteral("string literal"), Boolean(TRUE),
                   Identifier("x")}}
    \cup {Function("main", <<>>, Program(<<Return(Number(42))>>)),
          Function("f", <<<<"a", "int">>>>, Program(<<>>)),
          Function("f", <<>>, Program(<<Return(Boolean(FALSE)),
                                        Return(StringLiteral("string literal"))>>)),
          Function("main", <<<<"a", "int">>, <<"x", "int">>>>,
                   Program(<<Return(Number(1))>>)),
          Program(<<>>),
          Program(<<Number(1), StringLiteral("string literal")>>),
          Program(<<Let("x", None, Number(1)), Let("y", None, Boolean(TRUE))>>),
          Program(<<Let("x", None, Number(1)), Identifier("x")>>),
          Return(Number(1)),
          BinaryOp("Add", Number(1), Number(2))}

InitCheck ==
    /\ mode = "check"
    /\ pc = "unit"
    /\ source = <<>>
    /\ tokens = <<>>
    /\ parsed = NotRun
    /\ ast = NoNode
    /\ env = EmptyEnv
    /\ checked = NotRun
    /\ cg = NewCodeGen
    /\ generated = NotRun
    /\ started = <<>>
    /\ calls = 0

\* checker.check(&node)
CheckCall ==
    /\ mode = "check" /\ calls < MaxChecks
    /\ \E node \in CheckInputs :
          LET r == check(node, env)
          IN  /\ ast' = node
              /\ checked' = [res |-> r.res, ty |-> r.ty, err |-> r.err]
              /\ env' = r.env
    /\ calls' = calls + 1
    /\ UNCHANGED <<mode, pc, source, tokens, parsed, cg, generated, started>>

NextCheck == CheckCall

SpecCheck == InitCheck /\ [][NextCheck]_vars

(***************************************************************************)
(* A test driving one CodeGen, as test_codegen of src/codegen.rs and       *)
(* tests/main.rs do: a fresh CodeGen, then generate and create_function    *)
(* calls.                                                                  *)
(***************************************************************************)
GenStatements ==
    {Return(Number(42)), Return(Identifier("a")), Let("a", None, Number(1))}

GenBodies ==
    SeqsUpTo(GenStatements, MaxStmts)
    \cup {<<BinaryOp("Add", Number(1), Number(2))>>,
          <<Return(BinaryOp("Add", Number(1), Number(2)))>>,
          <<Number(1), StringLiteral("string literal")>>,
          <<Return(Identifier("undeclared_var"))>>,
          <<Let("x", None, Identifier("undeclared_var"))>>,
          <<Let("x", None, Number(1)), Return(Identifier("undeclared_var"))>>,
          <<Let("x", None, StringLiteral("string literal"))>>,
          <<Boolean(TRUE), Return(Number(42))>>,
          <<Function("g", <<>>, Program(<<>>))>>,
          <<Function("g", <<>>, Program(<<>>)), Let("a", None, Number(1))>>}

GenInputs ==
    {Function("main", <<>>, Program(b)) : b \in GenBodies}
    \cup {Function("f", <<<<"a", "int">>>>, Return(Number(42))),
          Function("f", <<>>, Number(1))}
    \cup GenStatements
    \cup {Return(Identifier("undeclared_var")),
          Let("x", None, Identifier("undeclared_var")),
          Let("x", Some("int"), Identifier("a")),
          Number(42),
          BinaryOp("Add", Number(1), Number(2)),
          StringLiteral("string literal"),
          Boolean(TRUE),
          Return(StringLiteral("string literal")),
          Return(Boolean(FALSE)),
          Let("x", None, BinaryOp("Multiply", Number(1), Number(2))),
          Let("x", None, Boolean(TRUE)),
          Program(<<Number(42)>>),
          Program(<<Function("f", <<>>, Program(<<>>)),
                    Let("a", None, Number(1)),
                    Function("main", <<>>, Program(<<Return(Identifier("a"))>>))>>)}

CreateFunctionArgs ==
    {<<>>, <<<<"a", "i32">>>>, <<<<"a", "i64">>, <<"x", "i32">>>>}

InitGen ==
    /\ mode = "gen"
    /\ pc = "unit"
    /\ source = <<>>
    /\ tokens = <<>>
    /\ parsed = NotRun
    /\ ast = NoNode
    /\ env = EmptyEnv
    /\ checked = NotRun
    /\ cg = NewCodeGen
    /\ generated = NotRun
    /\ started = <<>>
    /\ calls = 0

\* codegen.generate(&node)
GenerateCall ==
    /\ mode = "gen" /\ calls < MaxGenCalls
    /\ \E node \in GenInputs :
          LET r == generate(node, cg)
          IN  /\ ast' = node
              /\ generated' = [res |-> r.res, err |-> r.err]
              /\ cg' = r.cg
    /\ calls' = calls + 1
    /\ UNCHANGED <<mode, pc, source, tokens, parsed, env, checked, started>>

\* codegen.create_function(name, args, i32)
CreateFunctionCall ==
    /\ mode = "gen" /\ calls < MaxGenCalls
    /\ \E args \in CreateFunctionArgs :
          cg' = create_function("callee", args, "i32", cg)
    /\ ast' = NoNode
    /\ generated' = NotRun
    /\ calls' = calls + 1
    /\ UNCHANGED <<mode, pc, source, tokens, parsed, env, checked, started>>

NextGen ==
    \/ GenerateCall
    \/ CreateFunctionCall

SpecGen == InitGen /\ [][NextGen]_vars

(***************************************************************************)
(* Properties.                                                             *)
(***************************************************************************)

\* C1: for every token sequence, Parser::parse ends in Ok(Program(...)) with
\* the cursor equal to the number of tokens, or in Err; it never reads
\* tokens[current] with current >= tokens.len().
C1_ParseEndsInOkOrErr ==
    parsed # NotRun =>
        \/ parsed.res = "Err"
        \/ /\ parsed.res = "Ok"
           /\ parsed.node.type = "Program"
           /\ parsed.cur = Len(tokens)

\* C2: for every identifier name and integer literal n, the tokens of
\* `fn name(): i32 { return n; }` parse to a Program with exactly one child,
\* a Function called name with no params whose body is a Program holding
\* exactly one Return(Number(n)); type-checking that Program yields Int.
C2_ReturnLiteralFunction ==
    \A name \in IdentLexemes :
      \A n \in {lx \in NumberLexemes : DecimalValue(lx) >= 0} :
        source = <<"fn", name, "(", ")", ":", "i32", "{", "return", n, ";", "}">>
        => /\ parsed # NotRun =>
                /\ parsed.res = "Ok"
                /\ parsed.node.type = "Program"
                /\ Len(parsed.node.nodes) = 1
                /\ parsed.node.nodes[1].type = "Function"
                /\ parsed.node.nodes[1].name = name
                /\ parsed.node.nodes[1].params = <<>>
                /\ parsed.node.nodes[1].body.type = "Program"
                /\ parsed.node.nodes[1].body.nodes
                      = <<[type |-> "Return",
                           expr |-> [type |-> "Number", val |-> DecimalValue(n)]]>>
           /\ checked # NotRun => (checked.res = "Ok" /\ checked.ty = [tag |-> "Int"])

C2_Witness ==
    /\ source = <<"fn", "x", "(", ")", ":", "i32", "{", "return", "42", ";", "}">>
    /\ parsed.res = "Ok"
    /\ checked # NotRun
    /\ checked.res = "Ok"

\* C3: parsing the tokens of `let x: i32 = 42;` yields
\* Program([Let{name: "x", type_annotation: Some("i32"), value: Number(42)}]).
C3_LetWithTypeKeywordParses ==
    (source = <<"let", "x", ":", "i32", "=", "42", ";">> /\ parsed # NotRun)
    => /\ parsed.res = "Ok"
       /\ parsed.node =
            [type |-> "Program",
             nodes |-> <<[type |-> "Let", name |-> "x",
                          type_annotation |-> [some |-> TRUE, v |-> "i32"],
                          value |-> [type |-> "Number", val |-> 42]]>>]

\* C4: checking Let{name: "x", type_annotation: Some("i32"), value: Number(42)}
\* in a fresh TypeChecker returns Ok(Int) and leaves x bound to Int.
C4_LetI32ChecksToInt ==
    (mode = "check" /\ calls = 1
       /\ ast = [type |-> "Let", name |-> "x",
                 type_annotation |-> [some |-> TRUE, v |-> "i32"],
                 value |-> [type |-> "Number", val |-> 42]])
    => /\ checked.res = "Ok"
       /\ checked.ty = [tag |-> "Int"]
       /\ "x" \in DOMAIN env
       /\ env["x"] = [tag |-> "Int"]

\* the type a type name of the checker stands for, and the type of a literal
C5_NamedType ==
    [int |-> [tag |-> "Int"], float |-> [tag |-> "Float"],
     string |-> [tag |-> "String"], bool |-> [tag |-> "Bool"]]
C5_LiteralType ==
    [Number |-> [tag |-> "Int"], StringLiteral |-> [tag |-> "String"],
     Boolean |-> [tag |-> "Bool"]]

\* C5: checking a Let whose annotation resolves to a type different from the
\* type of its (literal) value fails with a mismatch error naming the
\* expected type and the actual type, whatever the environment holds.
C5_AnnotationMismatch ==
    (/\ mode = "check" /\ calls >= 1
     /\ ast.type = "Let"
     /\ ast.type_annotation.some
     /\ ast.type_annotation.v \in DOMAIN C5_NamedType
     /\ ast.value.type \in DOMAIN C5_LiteralType
     /\ C5_NamedType[ast.type_annotation.v] # C5_LiteralType[ast.value.type])
    => /\ checked.res = "Err"
       /\ checked.err = [kind |-> "Mismatch",
                         expected |-> C5_NamedType[ast.type_annotation.v],
                         actual |-> C5_LiteralType[ast.value.type]]

C5_Witness ==
    /\ mode = "check" /\ calls = 2
    /\ "x" \in DOMAIN env
    /\ ast = [type |-> "Let", name |-> "y",
              type_annotation |-> [some |-> TRUE, v |-> "string"],
              value |-> [type |-> "Number", val |-> 42]]
    /\ checked.err = [kind |-> "Mismatch", expected |-> [tag |-> "String"],
                      actual |-> [tag |-> "Int"]]

C7_RoundTrip ==
    source = <<"fn", "main", "(", ")", ":", "i32", "{",
               "let", "a", ":", "i32", "=", "1", ";", "return", "a", ";", "}">>
    => /\ parsed # NotRun => parsed.res = "Ok"
       /\ checked # NotRun => (checked.res = "Ok" /\ checked.ty = [tag |-> "Int"])
       /\ generated # NotRun => generated.res = "Ok"

\* the positions of the return instructions a build_return site emitted
C8_Returns(block, site) ==
    {i \in 1..Len(block) : block[i].op = "ret" /\ block[i].site = site}

\* the entry block ends in exactly one return: the explicit one if a
\* statement emitted one, otherwise an appended return of the i32 constant 0
C8_EndsInOneReturn(block) ==
    /\ Len(block) > 0
    /\ block[Len(block)].op = "ret"
    /\ Cardinality(C8_Returns(block, "explicit") \cup C8_Returns(block, "default")) = 1
    /\ C8_Returns(block, "default") # {} <=> C8_Returns(block, "explicit") = {}
    /\ \A i \in C8_Returns(block, "default") :
          block[i].val = [ty |-> "i32", const |-> TRUE, n |-> 0]

C9_ValueOf(node) == IF node.type = "Return" THEN node.expr ELSE node.value

\* C9: generating a Return or Let whose value is Identifier(name), name not
\* being in the variable-storage map, fails with the undefined-variable error
\* naming that identifier and emits no instruction; as the first statement of
\* a function body it leaves the block of that function empty.
C9_UndefinedVariable ==
    [][(mode = "gen" /\ calls' = calls + 1)
        => /\ (/\ ast'.type \in {"Return", "Let"}
               /\ C9_ValueOf(ast').type = "Identifier"
               /\ C9_ValueOf(ast').name \notin DOMAIN cg.variables)
              => /\ generated'.res = "Err"
                 /\ generated'.err = [kind |-> "UndefinedVariable",
                                      name |-> C9_ValueOf(ast').name]
                 /\ cg' = cg
           /\ (/\ ast'.type = "Function"
               /\ ast'.body.type = "Program"
               /\ Len(ast'.body.nodes) > 0
               /\ ast'.body.nodes[1].type \in {"Return", "Let"}
               /\ C9_ValueOf(ast'.body.nodes[1]).type = "Identifier"
               /\ C9_ValueOf(ast'.body.nodes[1]).name \notin DOMAIN cg.variables)
              => /\ generated'.res = "Err"
                 /\ generated'.err = [kind |-> "UndefinedVariable",
                                      name |-> C9_ValueOf(ast'.body.nodes[1]).name]
                 /\ cg'.functions[Len(cg.functions) + 1].block = <<>>
                 /\ cg'.variables = cg.variables]_vars

C9_Witness ==
    /\ mode = "gen" /\ calls = 2
    /\ cg.pos # 0
    /\ DOMAIN cg.variables = {"a"}
    /\ ast = [type |-> "Return",
              expr |-> [type |-> "Identifier", name |-> "undeclared_var"]]
    /\ generated.res = "Err"
    /\ generated.err = [kind |-> "UndefinedVariable", name |-> "undeclared_var"]

\* the stages of main in program order
C10_StageOrder ==
    <<"tokenize", "parse", "typecheck", "generate", "write_object", "link",
      "cleanup">>

\* C10: the stages start in the order tokenize, parse, type-check, generate,
\* write object file, each at most once; a stage starts only after the
\* previous one returned success; after a failure no later stage starts.
C10_StagesForwardFailFast ==
    /\ [](mode = "main" =>
            /\ Len(started) <= Len(C10_StageOrder)
            /\ started = SubSeq(C10_StageOrder, 1, Len(started))
            /\ Len(started) >= 3 => parsed.res = "Ok"
            /\ Len(started) >= 4 => checked.res = "Ok"
            /\ Len(started) >= 5 => generated.res = "Ok")
    /\ [][(pc \in {"failed", "panicked"}) => UNCHANGED started]_vars

C10_Witness ==
    /\ mode = "main"
    /\ pc = "failed"
    /\ started = <<"tokenize", "parse", "typecheck">>
    /\ checked.res = "Err"
    /\ generated = NotRun

\* C11: in every Function node the parser produces, the body holds at most
\* one Return and nothing follows it, so no function of the module gets an
\* instruction after the return of its block.
C11_SingleTrailingReturn ==
    /\ parsed.res = "Ok" =>
          \A i \in 1..Len(parsed.node.nodes) :
             parsed.node.nodes[i].type = "Function" =>
                LET body == parsed.node.nodes[i].body.nodes
                IN  \A j \in 1..Len(body) :
                       body[j].type = "Return" => j = Len(body)
    /\ \A f \in 1..Len(cg.functions) :
          \A j \in 1..Len(cg.functions[f].block) :
             cg.functions[f].block[j].op = "ret"
                => j = Len(cg.functions[f].block)

\* the node kinds CodeGen::generate_expression and generate_value have no
\* arm for
C12_NoRule == {"BinaryOp", "StringLiteral", "Boolean"}

\* a Return or Let that takes its value from a node without a rule
C12_ValueWithoutRule(node) ==
    /\ node.type \in {"Return", "Let"}
    /\ C9_ValueOf(node).type \in C12_NoRule

\* C12 as stated: generation returns no error on account of a BinaryOp,
\* StringLiteral or Boolean node, be it a statement, the operand of a Return
\* or the value of a Let.
C12_Original ==
    [][(mode = "gen" /\ calls' = calls + 1)
        => /\ ast'.type \in C12_NoRule => generated'.res = "Ok"
           /\ C12_ValueWithoutRule(ast') => generated'.res = "Ok"
           /\ (/\ ast'.type = "Function"
               /\ ast'.body.type = "Program"
               /\ \A i \in 1..Len(ast'.body.nodes) :
                     \/ ast'.body.nodes[i].type \in C12_NoRule
                     \/ C12_ValueWithoutRule(ast'.body.nodes[i]))
              => generated'.res = "Ok"]_vars

\* C12 (amended): a BinaryOp, StringLiteral or Boolean node in statement
\* position is a no-op and causes no error; as the operand of a Return or the
\* value of a Let it makes generation fail with the unsupported-expression
\* error, and no instruction is emitted for that statement.
C12_NoOpOnlyAsStatement ==
    [][(mode = "gen" /\ calls' = calls + 1)
        => /\ ast'.type \in C12_NoRule => (generated'.res = "Ok" /\ cg' = cg)
           /\ (/\ ast'.type = "Function"
               /\ ast'.body.type = "Program"
               /\ \A i \in 1..Len(ast'.body.nodes) :
                     ast'.body.nodes[i].type \in C12_NoRule)
              => /\ generated'.res = "Ok"
                 /\ Len(cg'.functions[Len(cg.functions) + 1].block) = 1
                 /\ cg'.functions[Len(cg.functions) + 1].block[1].site = "default"
           /\ C12_ValueWithoutRule(ast')
              => /\ generated'.res = "Err"
                 /\ generated'.err = [kind |-> "UnsupportedValue"]
                 /\ cg' = cg
           /\ (/\ ast'.type = "Function"
               /\ ast'.body.type = "Program"
               /\ Len(ast'.body.nodes) > 0
               /\ C12_ValueWithoutRule(ast'.body.nodes[1]))
              => /\ generated'.res = "Err"
                 /\ generated'.err = [kind |-> "UnsupportedValue"]
                 /\ cg'.functions[Len(cg.functions) + 1].block = <<>>]_vars

C12_Witness ==
    /\ mode = "gen" /\ calls = 1
    /\ ast = [type |-> "Function", name |-> "main", params |-> <<>>,
              body |-> [type |-> "Program",
                        nodes |-> <<[type |-> "BinaryOp", op |-> "Add",
                                     left |-> [type |-> "Number", val |-> 1],
                                     right |-> [type |-> "Number", val |-> 2]]>>]]
    /\ generated.res = "Ok"
    /\ Len(cg.functions) = 1
    /\ Len(cg.functions[1].block) = 1
    /\ cg.functions[1].block[1].site = "default"

\* p matches  param (',' param)*  with  param := ident ':' type_name
RECURSIVE C13_IsParamList(_)
C13_IsParamList(p) ==
    /\ Len(p) >= 3
    /\ p[1] \in IdentLexemes
    /\ p[2] = ":"
    /\ p[3] \in IdentLexemes \cup {"i32", "f64", "bool", "string"}
    /\ \/ Len(p) = 3
       \/ /\ p[4] = ","
          /\ C13_IsParamList(SubSeq(p, 5, Len(p)))

\* C13: a function's parameter list is accepted only when it is empty or
\* matches  param (',' param)* : two parameters without a comma between them,
\* or a comma directly before `)`, are rejected.
C13_CommaSeparatedParams ==
    \A p \in ParamSources :
       (/\ source = <<"fn", "main", "(">> \o p
                      \o <<")", ":", "i32", "{", "return", "42", ";", "}">>
        /\ parsed.res = "Ok")
       => (p = <<>> \/ C13_IsParamList(p))

\* a node whose check cannot fail: a literal, a Return of a literal, or a Let
\* of a literal without annotation
C14_SimplyTyped(node) ==
    \/ node.type \in DOMAIN C5_LiteralType
    \/ node.type = "Return" /\ node.expr.type \in DOMAIN C5_LiteralType
    \/ /\ node.type = "Let"
       /\ ~node.type_annotation.some
       /\ node.value.type \in DOMAIN C5_LiteralType

\* the type of such a node
C14_TypeOf(node) ==
    CASE node.type = "Return" -> C5_LiteralType[node.expr.type]
      [] node.type = "Let" -> C5_LiteralType[node.value.type]
      [] OTHER -> C5_LiteralType[node.type]

\* the type of a Program of such nodes: that of the last child, Void if none
C14_ProgramType(nodes) ==
    IF Len(nodes) = 0 THEN [tag |-> "Void"] ELSE C14_TypeOf(nodes[Len(nodes)])

\* C14: check of a Program whose children all type-check returns the type of
\* the last child, and Void for no children; check of a Function returns the
\* type of its body and binds the function's name to
\* Function{params: [], return_type: body type}, whatever params it declares.
C14_ProgramAndFunctionTypes ==
    (mode = "check" /\ calls >= 1)
    => /\ (/\ ast.type = "Program"
           /\ \A i \in 1..Len(ast.nodes) : C14_SimplyTyped(ast.nodes[i]))
          => /\ checked.res = "Ok"
             /\ checked.ty = C14_ProgramType(ast.nodes)
       /\ (/\ ast.type = "Function"
           /\ ast.body.type = "Program"
           /\ \A i \in 1..Len(ast.body.nodes) : C14_SimplyTyped(ast.body.nodes[i]))
          => /\ checked.res = "Ok"
             /\ checked.ty = C14_ProgramType(ast.body.nodes)
             /\ ast.name \in DOMAIN env
             /\ env[ast.name] = [tag |-> "Function", params |-> <<>>,
                                 return_type |-> C14_ProgramType(ast.body.nodes)]

C14_Witness ==
    /\ mode = "check" /\ calls = 2
    /\ ast = [type |-> "Function", name |-> "main",
              params |-> <<<<"a", "int">>, <<"x", "int">>>>,
              body |-> [type |-> "Program",
                        nodes |-> <<[type |-> "Return",
                                     expr |-> [type |-> "Number", val |-> 1]]>>]]
    /\ checked.res = "Ok"
    /\ checked.ty = [tag |-> "Int"]
    /\ env["main"] = [tag |-> "Function", params |-> <<>>,
                      return_type |-> [tag |-> "Int"]]

C15_OpName == [op \in {"+", "-", "*", "/"} |->
                 CASE op = "+" -> "Add"
                   [] op = "-" -> "Subtract"
                   [] op = "*" -> "Multiply"
                   [] op = "/" -> "Divide"]

\* the tree of one primary lexeme
C15_Primary(lx) ==
    IF lx = "a" THEN [type |-> "Identifier", name |-> "a"]
    ELSE [type |-> "Number",
          val |-> CASE lx = "1" -> 1 [] lx = "2" -> 2 [] lx = "42" -> 42]

\* the left-nested tree of the first k operators of p0 op1 p1 ... opk pk
RECURSIVE C15_LeftNested(_, _)
C15_LeftNested(e, k) ==
    IF k = 0 THEN C15_Primary(e[1])
    ELSE [type |-> "BinaryOp", op |-> C15_OpName[e[2 * k]],
          left |-> C15_LeftNested(e, k - 1),
          right |-> C15_Primary(e[2 * k + 1])]

\* C15: an expression p0 op1 p1 ... opk pk of primaries and operators among
\* + - * / parses to the left-nested tree
\* BinaryOp(opk, BinaryOp(..., BinaryOp(op1, p0, p1) ...), pk) whatever the
\* operators are, with + - * / mapped to Add, Subtract, Multiply, Divide.
C15_LeftNestedSingleTier ==
    \A k \in 0..MaxOps : \A e \in OperatorExprs(k) :
       (source = LetSource("x", <<>>, e) /\ parsed # NotRun)
       => /\ parsed.res = "Ok"
          /\ parsed.node =
               [type |-> "Program",
                nodes |-> <<[type |-> "Let", name |-> "x",
                             type_annotation |-> [some |-> FALSE],
                             value |-> C15_LeftNested(e, k)]>>]

C15_Witness ==
    /\ source = <<"let", "x", "=", "1", "+", "2", "*", "a", ";">>
    /\ parsed.res = "Ok"
    /\ parsed.node.nodes[1].value =
         [type |-> "BinaryOp", op |-> "Multiply",
          left |-> [type |-> "BinaryOp", op |-> "Add",
                    left |-> [type |-> "Number", val |-> 1],
                    right |-> [type |-> "Number", val |-> 2]],
          right |-> [type |-> "Identifier", name |-> "a"]]

====
